---- MODULE Spec2Model ----
(***************************************************************************)
(* Model of the snippet helpers of rust-best-practices: the unified        *)
(* Result/Error pair with its blanket conversion, in its two sibling       *)
(* versions, and the stub operations that return it.                       *)
(***************************************************************************)
EXTENDS Integers, Sequences, FiniteSets, TLC

(* ------------------------------ bounds -------------------------------- *)

\* number of independent call chains
NumChains == 2
\* number of nested callers a failure is forwarded through
MaxDepth == 2
\* number of foo/bar calls made on a builder before build()
MaxSetters == 2

Chains == 1..NumChains
Frames == 0..MaxDepth

(* --------------------- underlying (foreign) errors --------------------- *)

\* concrete types that implement std::error::Error
ErrTypes == {"ParseError", "IoError"}
Descs == {"bad url", "timed out"}
\* the values an external subsystem can fail with
Causes == [type : ErrTypes, desc : Descs]
\* names of environment variables (&'static str)
EnvVars == {"K", "PROXY_URL"}

\* Box::new(err) as Box<dyn std::error::Error>: owns the whole value; the
\* static type is erased, the value (and with it its dynamic type) is kept
Box_new(err) == [box |-> err]

\* Display through the boxed trait object
Describe(b) == b.box.desc

\* <dyn Error + 'static>::is::<T>() on the boxed cause
Downcast(b, T) == b.box.type = T

(* ------------------- extended Error (snippet_helpers) ------------------ *)

Invalid == [tag |-> "Invalid"]
NetworkUnavailable == [tag |-> "NetworkUnavailable"]
\* mutant: the key is hard-coded
MalformedEnvUrl_FixedKey(env_var, source) ==
    [tag |-> "MalformedEnvUrl", env_var |-> "K", source |-> source]
MalformedEnvUrl(env_var, source) ==
    [tag |-> "MalformedEnvUrl", env_var |-> env_var, source |-> source]
Unsupported == [tag |-> "Unsupported"]
Unknown(b) == [tag |-> "Unknown", cause |-> b]

Variants == {"Invalid", "NetworkUnavailable", "MalformedEnvUrl", "Unsupported", "Unknown"}
NamedVariants == Variants \ {"Unknown"}

\* the bound of the blanket impl: E: std::error::Error + 'static.
\* Error itself has no impl of std::error::Error.
StdError(v) == "type" \in DOMAIN v

\* mutants of from(): the cause is replaced by a fresh generic error; only
\* its message is kept; the failure is filed under a named variant; the
\* description is taken from the type name
From_Replaced(err) == Unknown(Box_new([type |-> "StringError", desc |-> "unknown error"]))
From_Message(err) == Unknown(Box_new([type |-> "StringError", desc |-> err.desc]))
From_Named(err) == Invalid
From_TypeName(err) == Unknown(Box_new([type |-> err.type, desc |-> err.type]))
\* fn from(err: E) -> Self
From(err) == Unknown(Box_new(err))

\* mutants of the conversion: an Error is itself taken for a foreign error and
\* wrapped again; the detail of MalformedEnvUrl is erased on the way up
Convert_Rewrap(e) ==
    IF StdError(e) THEN From(e) ELSE Unknown(Box_new([type |-> "Error", desc |-> e.tag]))
Convert_Erase(e) ==
    IF StdError(e) THEN From(e)
    ELSE IF e.tag = "MalformedEnvUrl" THEN Unknown(e.source) ELSE e
\* conversion picked for a failure of a given type at a `?`: the blanket impl
\* where its bound holds, the reflexive From<T> for T on an Error
Convert(e) == IF StdError(e) THEN From(e) ELSE e

(* --------------------- base Error (site/snippet_helpers) --------------- *)

SiteVariants == {"Invalid", "NetworkUnavailable", "Unknown"}

Site_From_Named(err) == NetworkUnavailable
Site_From(err) == Unknown(Box_new(err))

Site_Convert(e) == IF StdError(e) THEN Site_From(e) ELSE e

(* ------------------------------ Result<T> ------------------------------ *)

Empty == [st |-> "empty"]
Ok(v) == [st |-> "ok", val |-> v]
Err(e) == [st |-> "err", err |-> e]

\* r? : early return of the converted failure, the value otherwise
Question(r) == IF r.st = "err" THEN Err(Convert(r.err)) ELSE r
Site_Question(r) == IF r.st = "err" THEN Err(Site_Convert(r.err)) ELSE r

(* ------------------- stubs of function_discipline.rs ------------------- *)

Arbitrary == [struct |-> "Arbitrary", unit |-> "function_discipline"]
Foo == [struct |-> "Foo", unit |-> "some_crate"]
FooBuilder == [struct |-> "FooBuilder", unit |-> "some_crate"]

Arbitrary_new == Arbitrary
Arbitrary_builder == Arbitrary
Arbitrary_foo(self, a) == self
Arbitrary_bar(self, a) == self
\* mutant of build(): a receiver on which foo/bar were not both called is refused
Arbitrary_build_Err(self) == Err(Invalid)
Arbitrary_build(self) == Ok(self)

Foo_builder == FooBuilder
FooBuilder_new == FooBuilder
FooBuilder_foo(self, a) == self
FooBuilder_bar(self, a) == self
FooBuilder_build(self) == Ok(Foo)

(* --------------------- stubs of code_discipline.rs --------------------- *)

Code_Arbitrary == [struct |-> "Arbitrary", unit |-> "code_discipline"]
Log == [struct |-> "Log", log_file_path |-> "log"]

Code_Arbitrary_new == Code_Arbitrary
something_else(self) == self
another_thing(self) == self
chained_with_something_else(self) == Ok(self)
some_long_computation == Ok(Code_Arbitrary)
\* mutant: the transmission fails
transmit_log_Err(self, line) == Err(NetworkUnavailable)
transmit_log(self, line) == Ok(0)

\* arguments given to foo and bar, lines given to transmit_log
Args == {"a", "b"}

(* ------------------------------- state --------------------------------- *)

VARIABLES
    pc,      \* per chain: "idle", "flight", "done"
    held,    \* per chain and frame: the result that frame has received
    heldS,   \* the same chain run against the base Error of site/
    src,     \* per chain: what the innermost callee produced
    arm,     \* per chain: the env_var of the explicit arm, if one was chosen
    obs,     \* per chain: what the top-level consumer saw
    recv,    \* stub session: the receiver of the next call
    calls,   \* stub session: the calls made so far
    sres,    \* stub session: the result of the fallible stub
    fut      \* stub session: the future of transmit_log

chainVars == <<pc, held, heldS, src, arm, obs>>
stubVars == <<recv, calls, sres, fut>>
vars == <<pc, held, heldS, src, arm, obs, recv, calls, sres, fut>>

NoSrc == [kind |-> "none"]
NoArm == [used |-> FALSE]
NoObs == [seen |-> FALSE]
NoRecv == [struct |-> "none"]
NoFut == [st |-> "none"]

Init ==
    /\ pc = [c \in Chains |-> "idle"]
    /\ held = [c \in Chains |-> [f \in Frames |-> Empty]]
    /\ heldS = [c \in Chains |-> [f \in Frames |-> Empty]]
    /\ src = [c \in Chains |-> NoSrc]
    /\ arm = [c \in Chains |-> NoArm]
    /\ obs = [c \in Chains |-> NoObs]
    /\ recv = NoRecv
    /\ calls = <<>>
    /\ sres = Empty
    /\ fut = NoFut

(* ----------------------------- call chains ----------------------------- *)

\* the frame of chain c that holds its result, 0 being the top level
Holding(c) == {f \in Frames : held[c][f] # Empty}

\* a slot of the base version: Empty where the base Error lacks the variant
SiteSlot(r) ==
    IF r.st = "err" /\ ~StdError(r.err) /\ r.err.tag \notin SiteVariants THEN Empty ELSE r

\* the innermost operation detects a failure it understands and names it
Detect(c, e) ==
    /\ pc[c] = "idle"
    /\ pc' = [pc EXCEPT ![c] = "flight"]
    /\ held' = [held EXCEPT ![c][MaxDepth] = Err(e)]
    /\ heldS' = [heldS EXCEPT ![c][MaxDepth] = SiteSlot(Err(e))]
    /\ src' = [src EXCEPT ![c] = [kind |-> "named", v |-> e]]
    /\ UNCHANGED <<arm, obs, stubVars>>

\* an operation of another subsystem fails with its own error type
CalleeFails(c, cause) ==
    /\ pc[c] = "idle"
    /\ pc' = [pc EXCEPT ![c] = "flight"]
    /\ held' = [held EXCEPT ![c][MaxDepth] = Err(cause)]
    /\ heldS' = [heldS EXCEPT ![c][MaxDepth] = Err(cause)]
    /\ src' = [src EXCEPT ![c] = [kind |-> "callee", v |-> cause]]
    /\ UNCHANGED <<arm, obs, stubVars>>

\* the innermost operation is one of the stubs
CallStub(c, r) ==
    /\ pc[c] = "idle"
    /\ pc' = [pc EXCEPT ![c] = "flight"]
    /\ held' = [held EXCEPT ![c][MaxDepth] = r]
    /\ heldS' = [heldS EXCEPT ![c][MaxDepth] = SiteSlot(r)]
    /\ src' = [src EXCEPT ![c] = [kind |-> "stub", v |-> r]]
    /\ UNCHANGED <<arm, obs, stubVars>>

\* the call site keeps the detail: map_err into MalformedEnvUrl
ExplicitArm(c, k) ==
    /\ pc[c] = "flight"
    /\ held[c][MaxDepth].st = "err"
    /\ StdError(held[c][MaxDepth].err)
    /\ held' = [held EXCEPT ![c][MaxDepth] =
                    Err(MalformedEnvUrl(k, Box_new(held[c][MaxDepth].err)))]
    /\ heldS' = [heldS EXCEPT ![c][MaxDepth] = Empty]
    /\ arm' = [arm EXCEPT ![c] = [used |-> TRUE, env_var |-> k]]
    /\ UNCHANGED <<pc, src, obs, stubVars>>

\* frame f applies ? to what it received and returns to frame f - 1
Propagate(c) ==
    /\ pc[c] = "flight"
    /\ \E f \in Holding(c) :
        /\ f > 0
        /\ held' = [held EXCEPT ![c][f] = Empty, ![c][f - 1] = Question(held[c][f])]
        /\ heldS' = [heldS EXCEPT ![c][f] = Empty,
                        ![c][f - 1] = IF heldS[c][f] = Empty THEN Empty
                                      ELSE Site_Question(heldS[c][f])]
    /\ UNCHANGED <<pc, src, arm, obs, stubVars>>

\* what a consumer that matches on the variant gets
Match(r) ==
    IF r.st = "ok" THEN [seen |-> TRUE, variant |-> "Ok"]
    ELSE IF r.err.tag = "Unknown"
        THEN [seen |-> TRUE, variant |-> "Unknown", desc |-> Describe(r.err.cause)]
    ELSE IF r.err.tag = "MalformedEnvUrl"
        THEN [seen |-> TRUE, variant |-> "MalformedEnvUrl",
              env_var |-> r.err.env_var, desc |-> Describe(r.err.source)]
    ELSE [seen |-> TRUE, variant |-> r.err.tag]

\* the top level matches on the result and drops it
Consume(c) ==
    /\ pc[c] = "flight"
    /\ held[c][0] # Empty
    /\ obs' = [obs EXCEPT ![c] = Match(held[c][0])]
    /\ held' = [held EXCEPT ![c][0] = Empty]
    /\ heldS' = [heldS EXCEPT ![c][0] = Empty]
    /\ pc' = [pc EXCEPT ![c] = "done"]
    /\ UNCHANGED <<src, arm, stubVars>>

Next ==
    \/ \E c \in Chains : \E e \in {Invalid, NetworkUnavailable, Unsupported} : Detect(c, e)
    \/ \E c \in Chains : \E cause \in Causes : CalleeFails(c, cause)
    \/ \E c \in Chains : \E r \in {FooBuilder_build(Foo_builder), some_long_computation} :
            CallStub(c, r)
    \/ \E c \in Chains : \E k \in EnvVars : ExplicitArm(c, k)
    \/ \E c \in Chains : Propagate(c)
    \/ \E c \in Chains : Consume(c)

Spec == Init /\ [][Next]_vars

(* ---------------------------- stub session ----------------------------- *)

Call(m, a) == [m |-> m, arg |-> a]

\* the foo/bar calls made so far
Setters == {i \in 1..Len(calls) : calls[i].m \in {"foo", "bar"}}

\* Arbitrary::new(), Arbitrary::builder()
StubArbitrary(ctor) ==
    /\ recv = NoRecv /\ sres = Empty /\ fut = NoFut
    /\ recv' = (IF ctor = "Arbitrary::new" THEN Arbitrary_new ELSE Arbitrary_builder)
    /\ calls' = <<Call(ctor, "")>>
    /\ UNCHANGED <<sres, fut, chainVars>>

\* some_crate::FooBuilder::new(), some_crate::Foo::builder()
StubFooBuilder(ctor) ==
    /\ recv = NoRecv /\ sres = Empty /\ fut = NoFut
    /\ recv' = (IF ctor = "FooBuilder::new" THEN FooBuilder_new ELSE Foo_builder)
    /\ calls' = <<Call(ctor, "")>>
    /\ UNCHANGED <<sres, fut, chainVars>>

\* .foo(a)
StubFoo(a) ==
    /\ recv \in {Arbitrary, FooBuilder}
    /\ Cardinality(Setters) < MaxSetters
    /\ recv' = (IF recv = Arbitrary THEN Arbitrary_foo(recv, a) ELSE FooBuilder_foo(recv, a))
    /\ calls' = Append(calls, Call("foo", a))
    /\ UNCHANGED <<sres, fut, chainVars>>

\* .bar(a)
StubBar(a) ==
    /\ recv \in {Arbitrary, FooBuilder}
    /\ Cardinality(Setters) < MaxSetters
    /\ recv' = (IF recv = Arbitrary THEN Arbitrary_bar(recv, a) ELSE FooBuilder_bar(recv, a))
    /\ calls' = Append(calls, Call("bar", a))
    /\ UNCHANGED <<sres, fut, chainVars>>

\* .build(), which consumes the receiver
StubBuild ==
    /\ recv \in {Arbitrary, FooBuilder}
    /\ sres' = (IF recv = Arbitrary THEN Arbitrary_build(recv) ELSE FooBuilder_build(recv))
    /\ recv' = NoRecv
    /\ calls' = Append(calls, Call("build", ""))
    /\ UNCHANGED <<fut, chainVars>>

\* Arbitrary::new() of code_discipline.rs
StubCodeNew ==
    /\ recv = NoRecv /\ sres = Empty /\ fut = NoFut
    /\ recv' = Code_Arbitrary_new
    /\ calls' = <<Call("code::Arbitrary::new", "")>>
    /\ UNCHANGED <<sres, fut, chainVars>>

\* .something_else(), .another_thing()
StubCodeStep(m) ==
    /\ recv = Code_Arbitrary
    /\ Len(calls) <= MaxSetters
    /\ recv' = (IF m = "something_else" THEN something_else(recv) ELSE another_thing(recv))
    /\ calls' = Append(calls, Call(m, ""))
    /\ UNCHANGED <<sres, fut, chainVars>>

\* .chained_with_something_else()
StubChained ==
    /\ recv = Code_Arbitrary
    /\ sres' = chained_with_something_else(recv)
    /\ recv' = NoRecv
    /\ calls' = Append(calls, Call("chained_with_something_else", ""))
    /\ UNCHANGED <<fut, chainVars>>

\* some_long_computation()
StubLongComputation ==
    /\ recv = NoRecv /\ sres = Empty /\ fut = NoFut
    /\ sres' = some_long_computation
    /\ calls' = <<Call("some_long_computation", "")>>
    /\ UNCHANGED <<recv, fut, chainVars>>

\* log.transmit_log(line): an async fn, nothing runs before the await
StubTransmit(line) ==
    /\ recv = NoRecv /\ sres = Empty /\ fut = NoFut
    /\ fut' = [st |-> "pending", self |-> Log, line |-> line]
    /\ calls' = <<Call("transmit_log", line)>>
    /\ UNCHANGED <<recv, sres, chainVars>>

\* .await
StubAwait ==
    /\ fut.st = "pending"
    /\ sres' = transmit_log(fut.self, fut.line)
    /\ fut' = [st |-> "ready"]
    /\ calls' = Append(calls, Call("await", ""))
    /\ UNCHANGED <<recv, chainVars>>

StubNext ==
    \/ \E ctor \in {"Arbitrary::new", "Arbitrary::builder"} : StubArbitrary(ctor)
    \/ \E ctor \in {"FooBuilder::new", "Foo::builder"} : StubFooBuilder(ctor)
    \/ \E a \in Args : StubFoo(a)
    \/ \E a \in Args : StubBar(a)
    \/ StubBuild
    \/ StubCodeNew
    \/ \E m \in {"something_else", "another_thing"} : StubCodeStep(m)
    \/ StubChained
    \/ StubLongComputation
    \/ \E line \in Args : StubTransmit(line)
    \/ StubAwait

StubSpec == Init /\ [][StubNext]_vars

(* ============================== claims ================================= *)

\* the result chain c holds in frame f is an Error (not a raw foreign error)
HoldsError(c, f) == held[c][f].st = "err" /\ ~StdError(held[c][f].err)

\* chain c went through the blanket conversion: a foreign failure, no explicit arm
Generic(c) == src[c].kind = "callee" /\ ~arm[c].used

\* C1: a foreign error that went through the generic conversion is an Unknown,
\* never a named variant, and the retained cause describes itself as the
\* original did
C1_GenericConversion ==
    \A c \in Chains : \A f \in Frames :
        (Generic(c) /\ f < MaxDepth /\ held[c][f] # Empty) =>
            /\ held[c][f].st = "err"
            /\ held[c][f].err.tag = "Unknown"
            /\ held[c][f].err.tag \notin NamedVariants
            /\ Describe(held[c][f].err.cause) = src[c].v.desc

\* two chains hold, at once, Unknowns made from errors of two unrelated types
C1_Witness ==
    \E c, d \in Chains : \E f, g \in Frames :
        /\ Generic(c) /\ Generic(d) /\ src[c].v.type # src[d].v.type
        /\ HoldsError(c, f) /\ held[c][f].err.tag = "Unknown"
        /\ HoldsError(d, g) /\ held[d][g].err.tag = "Unknown"

\* C2: an Error that is already of the unified type is forwarded unchanged by
\* every caller, and the top level sees its variant: a named variant never
\* becomes Unknown
C2_NamedSurvives ==
    \A c \in Chains :
        /\ \A f \in Frames :
            (src[c].kind = "named" /\ held[c][f] # Empty) => held[c][f] = Err(src[c].v)
        /\ \A f \in Frames :
            (arm[c].used /\ held[c][f] # Empty) =>
                held[c][f] = Err(MalformedEnvUrl(arm[c].env_var, Box_new(src[c].v)))
        /\ (src[c].kind = "named" /\ pc[c] = "done") =>
                obs[c] = [seen |-> TRUE, variant |-> src[c].v.tag]

\* Invalid, returned by the innermost call, has reached the top level through
\* two forwarding callers
C2_Witness ==
    \E c \in Chains :
        /\ MaxDepth >= 2
        /\ src[c] = [kind |-> "named", v |-> Invalid]
        /\ held[c][0] = Err(Invalid)

\* C4: a MalformedEnvUrl holds exactly the key and the cause it was built
\* with, and matching on it gives back the key and the cause's description
C4_RoundTrip ==
    \A c \in Chains :
        arm[c].used =>
            /\ \A f \in Frames :
                held[c][f] # Empty =>
                    /\ held[c][f].st = "err"
                    /\ DOMAIN held[c][f].err = {"tag", "env_var", "source"}
                    /\ held[c][f].err.tag = "MalformedEnvUrl"
                    /\ held[c][f].err.env_var = arm[c].env_var
                    /\ held[c][f].err.source = Box_new(src[c].v)
                    /\ Match(held[c][f]).env_var = arm[c].env_var
                    /\ Match(held[c][f]).desc = src[c].v.desc
            /\ pc[c] = "done" =>
                    /\ obs[c].variant = "MalformedEnvUrl"
                    /\ obs[c].env_var = arm[c].env_var
                    /\ obs[c].desc = src[c].v.desc

\* a MalformedEnvUrl for PROXY_URL sits in the frame that has just built it
C4_Witness ==
    \E c \in Chains :
        /\ arm[c].used /\ arm[c].env_var = "PROXY_URL"
        /\ HoldsError(c, MaxDepth)
        /\ held[c][MaxDepth].err.tag = "MalformedEnvUrl"

C6_NothingSwallowed ==
    \A c \in Chains : \A f \in Frames :
        HoldsError(c, f) =>
            \/ held[c][f].err.tag \in NamedVariants
            \/ /\ held[c][f].err.tag = "Unknown"
               /\ src[c].kind = "callee"
               /\ held[c][f].err.cause = Box_new(src[c].v)

\* an Unknown has been forwarded up to the top level with its cause
C6_Witness ==
    \E c \in Chains :
        /\ HoldsError(c, 0)
        /\ held[c][0].err.tag = "Unknown"
        /\ held[c][0].err.cause = Box_new(src[c].v)

\* chains c and d went through the generic conversion with causes of different
\* types and the same description
SameDescription(c, d) ==
    /\ Generic(c) /\ Generic(d)
    /\ src[c].v.type # src[d].v.type
    /\ src[c].v.desc = src[d].v.desc

\* C7 as stated: two Unknowns made from causes of different types with the same
\* description cannot be told apart, not even by asking the cause for its type
C7_Original ==
    \A c, d \in Chains : \A f, g \in Frames :
        (SameDescription(c, d) /\ HoldsError(c, f) /\ HoldsError(d, g)) =>
            \A T \in ErrTypes :
                Downcast(held[c][f].err.cause, T) = Downcast(held[d][g].err.cause, T)

\* C7 as amended: a consumer that matches on the variant and reads the
\* description sees the same for both, while the box still holds a cause of
\* the original type
C7_DescriptionOnly ==
    \A c, d \in Chains :
        SameDescription(c, d) =>
            /\ (pc[c] = "done" /\ pc[d] = "done") => obs[c] = obs[d]
            /\ \A f, g \in Frames :
                (HoldsError(c, f) /\ HoldsError(d, g)) =>
                    /\ Match(held[c][f]) = Match(held[d][g])
                    /\ Downcast(held[c][f].err.cause, src[c].v.type)
                    /\ ~Downcast(held[c][f].err.cause, src[d].v.type)

\* the consumer has matched on two Unknowns of different types and the same
\* description
C7_Witness ==
    \E c, d \in Chains :
        /\ SameDescription(c, d)
        /\ pc[c] = "done" /\ pc[d] = "done"
        /\ obs[c].variant = "Unknown" /\ obs[c].desc = src[c].v.desc

\* what belongs to chain c
Own(c) == <<pc[c], held[c], heldS[c], src[c], arm[c], obs[c]>>

\* a chain in flight holds its result in exactly one frame, the others hold none
C8_OneOwner ==
    \A c \in Chains : Cardinality(Holding(c)) = (IF pc[c] = "flight" THEN 1 ELSE 0)

\* a step leaves an Error as it was built wherever it is held next, and
\* touches one chain only
C8_Step ==
    /\ \A c \in Chains : \A f, g \in Frames :
        (HoldsError(c, f) /\ held'[c][g] # Empty) => held'[c][g] = held[c][f]
    /\ \E c \in Chains : \A d \in Chains \ {c} : Own(d)' = Own(d)

\* C8: under any interleaving of the chains, an Error has one owner at a time,
\* is never modified once built, and no step of a chain changes what belongs
\* to another
C8_SingleOwnership == []C8_OneOwner /\ [][C8_Step]_vars

\* two chains are in flight at once, each holding an Error, in different frames
C8_Witness ==
    \E c, d \in Chains : \E f, g \in Frames :
        /\ c # d /\ f # g
        /\ HoldsError(c, f) /\ HoldsError(d, g)

\* chain c uses only what both versions of Error have
Shared(c) ==
    /\ ~arm[c].used
    /\ src[c].kind = "named" => src[c].v.tag \in SiteVariants

\* C9: the base Error has the variants of the extended one but MalformedEnvUrl
\* and Unsupported, and a chain that uses only the shared variants holds the
\* same result under both versions at every step
C9_SameOnShared ==
    /\ SiteVariants = Variants \ {"MalformedEnvUrl", "Unsupported"}
    /\ \A c \in Chains : \A f \in Frames : Shared(c) => heldS[c][f] = held[c][f]

\* a foreign failure has been converted under both versions
C9_Witness ==
    \E c \in Chains : \E f \in 0..(MaxDepth - 1) :
        /\ Generic(c)
        /\ HoldsError(c, f)
        /\ heldS[c][f].err.tag = "Unknown"

(* ---------------------------- stub session ----------------------------- *)

LastCall == calls[Len(calls)]
Built == Len(calls) > 0 /\ LastCall.m = "build"
OfArbitrary == calls[1].m \in {"Arbitrary::new", "Arbitrary::builder"}

\* the precondition the claim gives build(): foo and then bar have been called
C3_Precondition ==
    \E i, j \in 1..Len(calls) : i < j /\ calls[i].m = "foo" /\ calls[j].m = "bar"

\* C3 as stated: build() succeeds after new, foo("a"), bar("b") and returns
\* an error where its precondition does not hold
C3_Original ==
    Built => (IF C3_Precondition THEN sres.st = "ok" ELSE sres.st = "err")

\* C3 as amended: build() has no precondition; after new, foo("a"), bar("b")
\* and after any other sequence of foo and bar it returns the built value
C3_BuildSucceeds ==
    Built => sres = Ok(IF OfArbitrary THEN Arbitrary ELSE Foo)

\* the chain new, foo("a"), bar("b"), build() has returned the built value
C3_Witness ==
    /\ calls = <<Call("Arbitrary::new", ""), Call("foo", "a"), Call("bar", "b"),
                 Call("build", "")>>
    /\ sres = Ok(Arbitrary)

\* C10: whatever the receiver and the arguments, a fallible stub returns the
\* success case: build the value untouched by foo and bar, transmit_log 0
C10_StubsSucceed ==
    sres # Empty =>
        /\ sres.st = "ok"
        /\ LastCall.m = "build" => sres.val = (IF OfArbitrary THEN Arbitrary_new ELSE Foo)
        /\ LastCall.m = "chained_with_something_else" => sres.val = Code_Arbitrary_new
        /\ LastCall.m = "some_long_computation" => sres.val = Code_Arbitrary
        /\ LastCall.m = "await" => sres.val = 0

\* transmit_log has been awaited and has returned its count
C10_Witness ==
    /\ fut.st = "ready"
    /\ sres = Ok(0)

====
